---- MODULE Spec2Model ----
(***************************************************************************)
(* Model of pypvasync: the DBR type catalog (epics/dbr.py) and the         *)
(* asynchronous request/completion bridge (epics/coroutines.py).           *)
(***************************************************************************)
EXTENDS Integers, Sequences, FiniteSets, TLC

(***************************************************************************)
(* Bounds of the model.                                                    *)
(***************************************************************************)
MaxCalls == 2
MaxSteps == 2
MaxText == 4

(***************************************************************************)
(* dbr.ChannelType: the numeric field-type tags.                           *)
(***************************************************************************)
DBR_STRING == 0
INT == 1
SHORT == 1
FLOAT == 2
ENUM == 3
CHAR == 4
LONG == 5
DOUBLE == 6

STS_STRING == 7
STS_SHORT == 8
STS_INT == 8
STS_FLOAT == 9
STS_ENUM == 10
STS_CHAR == 11
STS_LONG == 12
STS_DOUBLE == 13

TIME_STRING == 14
TIME_INT == 15
TIME_SHORT == 15
TIME_FLOAT == 16
TIME_ENUM == 17
TIME_CHAR == 18
TIME_LONG == 19
TIME_DOUBLE == 20

CTRL_STRING == 28
CTRL_INT == 29
CTRL_SHORT == 29
CTRL_FLOAT == 30
CTRL_ENUM == 31
CTRL_CHAR == 32
CTRL_LONG == 33
CTRL_DOUBLE == 34

\* dbr.ECA status codes
ECA_NORMAL == 1
ECA_BADCHID == 410

native_types == {DBR_STRING, INT, SHORT, FLOAT, ENUM, CHAR, LONG, DOUBLE}

status_types == {STS_STRING, STS_SHORT, STS_INT, STS_FLOAT, STS_ENUM,
                 STS_CHAR, STS_LONG, STS_DOUBLE}

time_types == {TIME_STRING, TIME_INT, TIME_SHORT, TIME_FLOAT, TIME_ENUM,
               TIME_CHAR, TIME_LONG, TIME_DOUBLE}

control_types == {CTRL_STRING, CTRL_INT, CTRL_SHORT, CTRL_FLOAT, CTRL_ENUM,
                  CTRL_CHAR, CTRL_LONG, CTRL_DOUBLE}

char_types == {CHAR, TIME_CHAR, CTRL_CHAR}

native_float_types == {FLOAT, DOUBLE}

\* every member of the ChannelType enumeration
ChannelType == native_types \cup status_types \cup time_types \cup control_types

\* dbr._native_map, entry by entry
native_map ==
    (DBR_STRING :> DBR_STRING) @@ (INT :> INT) @@ (FLOAT :> FLOAT) @@ (ENUM :> ENUM) @@
    (CHAR :> CHAR) @@ (LONG :> LONG) @@ (DOUBLE :> DOUBLE) @@
    (STS_STRING :> DBR_STRING) @@ (STS_INT :> INT) @@ (STS_FLOAT :> FLOAT) @@
    (STS_ENUM :> ENUM) @@ (STS_CHAR :> CHAR) @@ (STS_LONG :> LONG) @@
    (STS_DOUBLE :> DOUBLE) @@
    (TIME_STRING :> DBR_STRING) @@ (TIME_INT :> INT) @@ (TIME_SHORT :> SHORT) @@
    (TIME_FLOAT :> FLOAT) @@ (TIME_ENUM :> ENUM) @@ (TIME_CHAR :> CHAR) @@
    (TIME_LONG :> LONG) @@ (TIME_DOUBLE :> DOUBLE) @@
    (CTRL_STRING :> DBR_STRING) @@ (CTRL_SHORT :> SHORT) @@ (CTRL_INT :> INT) @@
    (CTRL_FLOAT :> FLOAT) @@ (CTRL_ENUM :> ENUM) @@ (CTRL_CHAR :> CHAR) @@
    (CTRL_LONG :> LONG) @@ (CTRL_DOUBLE :> DOUBLE)

\* Outcome of a catalog function: a tag, or the exception it raises.
Ok(v) == [err |-> "none", val |-> v]
Raise(e) == [err |-> e, val |-> 0]

\* native_type with a table that holds the TIME and CTRL variants only, as its
\* docstring describes it
native_type_nostatus(ftype) ==
    IF ftype \in DOMAIN native_map /\ ftype \notin status_types
    THEN Ok(native_map[ftype])
    ELSE Raise("KeyError")

\* dbr.native_type: _native_map[ftype], KeyError on a tag that is no key
native_type(ftype) ==
    IF ftype \in DOMAIN native_map THEN Ok(native_map[ftype])
    ELSE Raise("KeyError")

\* promote_type that keeps a tag it does not know: _native_map.get(ftype, ftype)
promote_type_default(ftype, use_time, use_ctrl) ==
    LET n == IF ftype \in DOMAIN native_map THEN native_map[ftype] ELSE ftype
        p == IF use_ctrl THEN n + CTRL_STRING
             ELSE IF use_time THEN n + TIME_STRING
             ELSE n
    IN  IF p = CTRL_STRING THEN Ok(TIME_STRING) ELSE Ok(p)

\* promote_type without the demotion to the native type
promote_type_nodemote(ftype, use_time, use_ctrl) ==
    IF ftype \notin DOMAIN native_map THEN Raise("ValueError")
    ELSE LET p == IF use_ctrl THEN ftype + CTRL_STRING
                  ELSE IF use_time THEN ftype + TIME_STRING
                  ELSE ftype
         IN  IF p = CTRL_STRING THEN Ok(TIME_STRING) ELSE Ok(p)

\* promote_type without the CTRL_STRING special case
promote_type_nocollapse(ftype, use_time, use_ctrl) ==
    IF ftype \notin DOMAIN native_map THEN Raise("ValueError")
    ELSE LET n == native_map[ftype]
         IN  IF use_ctrl THEN Ok(n + CTRL_STRING)
             ELSE IF use_time THEN Ok(n + TIME_STRING)
             ELSE Ok(n)

\* promote_type with the offsets of the two families exchanged
promote_type_swapped(ftype, use_time, use_ctrl) ==
    IF ftype \notin DOMAIN native_map THEN Raise("ValueError")
    ELSE LET n == native_map[ftype]
             p == IF use_ctrl THEN n + TIME_STRING
                  ELSE IF use_time THEN n + CTRL_STRING
                  ELSE n
         IN  IF p = CTRL_STRING THEN Ok(TIME_STRING) ELSE Ok(p)

\* dbr.promote_type: ChType(_native_map.get(ftype, None)) raises ValueError on
\* an unknown tag; then the family offset is added, use_ctrl first; the
\* CTRL_STRING result is replaced by TIME_STRING.
promote_type(ftype, use_time, use_ctrl) ==
    IF ftype \notin DOMAIN native_map THEN Raise("ValueError")
    ELSE LET n == native_map[ftype]
             p == IF use_ctrl THEN n + CTRL_STRING
                  ELSE IF use_time THEN n + TIME_STRING
                  ELSE n
         IN  IF p = CTRL_STRING THEN Ok(TIME_STRING) ELSE Ok(p)


(***************************************************************************)
(* State.                                                                  *)
(*   pending_futures  the keys of coroutines._pending_futures              *)
(*   fstate           the asyncio state of every CAFuture created so far   *)
(*   inflight         identity tokens the native layer holds: accepted,    *)
(*                    completion event not yet delivered                   *)
(*   calls            the coroutine invocations made by the consumer       *)
(*   arg, acc, err, hist  a chain of type-catalog calls: its first         *)
(*                    argument, the current value, the exception raised,   *)
(*                    and the functions applied so far                     *)
(*   req, res         one call of a decoding or conversion function: its   *)
(*                    name and arguments, and what it returned or raised   *)
(***************************************************************************)
VARIABLES pending_futures, fstate, inflight, calls,
          arg, acc, err, hist, req, res

bridge_vars == <<pending_futures, fstate, inflight, calls>>
catalog_vars == <<arg, acc, err, hist>>
decode_vars == <<req, res>>
vars == <<pending_futures, fstate, inflight, calls,
          arg, acc, err, hist, req, res>>

\* Result of a coroutine as its caller sees it: a returned value or a raised
\* exception.
Ret(v) == [exc |-> "none", val |-> v]
Exc(e) == [exc |-> e, val |-> "none"]
Running == [exc |-> "none", val |-> "running"]

\* ca.field_type(chid): the channel's native type, -1 when it is unknown
FieldTypes == {-1, ENUM, CHAR, DOUBLE}
\* ca.element_count(chid)
Counts == {1, 2}
\* status codes of a native submission and of a completion event
Statuses == {ECA_NORMAL, ECA_BADCHID}

\* config.AUTOMONITOR_MAXLENGTH
AUTOMONITOR_MAXLENGTH == 65536

\* CAFuture.__init__: _pending_futures[self] = ctypes.py_object(self)
CAFuture_init(reg, f) == reg \cup {f}

\* ca_callback_done that leaves the entry in place
ca_callback_done_keep(reg, f) == reg

\* CAFuture.ca_callback_done: del _pending_futures[self]
ca_callback_done(reg, f) == reg \ {f}

\* asyncio.Future.cancel() as called in the except clauses: a future that is
\* already done is left as it is
cancel(st) == IF st = "PENDING" THEN "CANCELLED" ELSE st

\* ca.PySEVCHK(func, status): raises unless the status is ECA_NORMAL
PySEVCHK(status) == status /= ECA_NORMAL

\* the ftype=None and count=None defaults of get
NoneType == -2
NoCount == -1

\* get: count = element_count, or min(count, element_count)
effective_count(count, nelm) ==
    IF count = NoCount THEN nelm ELSE IF count < nelm THEN count ELSE nelm

\* coroutines._as_string: the CHAR branch iterates over val, which is a
\* single number when count is 1: TypeError; get_enum_strings(chid)[val]
\* subscripts the coroutine object that the call returns, before anything is
\* awaited: TypeError
as_string(count, ftype) ==
    IF ftype \in char_types /\ count < AUTOMONITOR_MAXLENGTH
    THEN IF count = 1 THEN Exc("TypeError") ELSE Ret("text")
    ELSE IF ftype = ENUM /\ count = 1 THEN Exc("TypeError")
    ELSE IF count > 1 THEN Ret("array_descr")
    ELSE Ret("str")

\* get, after the fetch delivered a value: unpack, then the as_string branch,
\* which swallows ValueError alone
get_convert(as_str, count, ftype) ==
    IF as_str
    THEN LET s == as_string(count, ftype)
         IN  IF s.exc = "ValueError" THEN Ret("value") ELSE s
    ELSE Ret("value")


\* a new entry of calls
Call(kind, pc, ftype, count, as_str, wait, callback, fut, result) ==
    [kind |-> kind, pc |-> pc, ftype |-> ftype, count |-> count,
     as_string |-> as_str, wait |-> wait, callback |-> callback,
     fut |-> fut, cbruns |-> 0, chft |-> NoneType, result |-> result]

\* the identity of the next CAFuture() object
NewFuture == Len(fstate) + 1

\* CAFuture(): a new pending future, registered in _pending_futures
CreateFuture ==
    /\ fstate' = Append(fstate, "PENDING")
    /\ pending_futures' = CAFuture_init(pending_futures, NewFuture)

\* The native call (ca_array_get_callback / ca_array_put_callback) returned
\* ret for the token of call cl; PySEVCHK raises on a bad status, otherwise
\* the coroutine suspends in asyncio.wait_for.
Submitted(cl, ret) ==
    IF PySEVCHK(ret)
    THEN /\ calls' = Append(calls, [cl EXCEPT !.pc = "done",
                                              !.result = Exc("CASeverityException")])
         /\ UNCHANGED inflight
    ELSE /\ calls' = Append(calls, [cl EXCEPT !.pc = "awaiting"])
         /\ inflight' = inflight \cup {cl.fut}

\* coroutines.get up to its first suspension; chft is the field type of the
\* channel, kept in the record of a call that asked for it. With ftype None, get evaluates field_type(chid), a name that
\* coroutines.py neither defines nor imports (only ca.field_type exists):
\* NameError.
get(chft, nelm, ftype, count, as_str, ret) ==
    /\ Len(calls) < MaxCalls
    /\ LET cl == Call("get", "start", ftype, NoCount, as_str, FALSE, FALSE, 0,
                      Running)
       IN  IF ftype = NoneType
           THEN /\ calls' = Append(calls, [cl EXCEPT !.pc = "done",
                                                     !.chft = chft,
                                                     !.result = Exc("NameError")])
                /\ UNCHANGED <<pending_futures, fstate, inflight>>
           ELSE IF ftype = -1
           THEN /\ calls' = Append(calls, [cl EXCEPT !.pc = "done",
                                                     !.result = Ret("None")])
                /\ UNCHANGED <<pending_futures, fstate, inflight>>
           ELSE /\ CreateFuture
                /\ Submitted([cl EXCEPT !.count = effective_count(count, nelm),
                                        !.fut = NewFuture], ret)
    /\ UNCHANGED <<catalog_vars, decode_vars>>

\* put that makes a future for every call
put_always_future(wait, callback, ret) ==
    /\ Len(calls) < MaxCalls
    /\ CreateFuture
    /\ Submitted(Call("put", "start", NoneType, NoCount, FALSE, wait, callback,
                      NewFuture, Running), ret)
    /\ UNCHANGED <<catalog_vars, decode_vars>>

\* coroutines.put up to its first suspension
put(wait, callback, ret) ==
    /\ Len(calls) < MaxCalls
    /\ IF ~(wait \/ callback)
       THEN /\ calls' = Append(calls, Call("put", "done", NoneType, NoCount, FALSE, wait,
                                           callback, 0,
                                           IF PySEVCHK(ret)
                                           THEN Exc("CASeverityException")
                                           ELSE Ret("status")))
            /\ UNCHANGED <<pending_futures, fstate, inflight>>
       ELSE /\ CreateFuture
            /\ Submitted(Call("put", "start", NoneType, NoCount, FALSE, wait, callback,
                              NewFuture, Running), ret)
    /\ UNCHANGED <<catalog_vars, decode_vars>>

\* the coroutines that end in the fetch of get_timevars, and of get_ctrlvars
TimeKinds == {"get_timevars", "get_timestamp", "get_severity"}
CtrlKinds == {"get_ctrlvars", "get_precision", "get_enum_strings"}

\* get_ctrlvars (use_ctrl) and get_timevars (use_time) up to their first
\* suspension: the future is created before the field type is promoted
get_vars(kind, chft, ret) ==
    /\ Len(calls) < MaxCalls
    /\ CreateFuture
    /\ LET p == promote_type(chft, kind \in TimeKinds, kind \in CtrlKinds)
       IN  IF p.err /= "none"
           THEN /\ calls' = Append(calls, Call(kind, "done", chft, 1, FALSE, FALSE,
                                               FALSE, NewFuture, Exc(p.err)))
                /\ UNCHANGED inflight
           ELSE Submitted(Call(kind, "start", p.val, 1, FALSE, FALSE, FALSE,
                               NewFuture, Running), ret)
    /\ UNCHANGED <<catalog_vars, decode_vars>>

get_ctrlvars(chft, ret) == get_vars("get_ctrlvars", chft, ret)

get_timevars(chft, ret) == get_vars("get_timevars", chft, ret)

\* get_timestamp and get_severity: yield from get_timevars(chid)
get_timestamp(chft, ret) == get_vars("get_timestamp", chft, ret)

get_severity(chft, ret) == get_vars("get_severity", chft, ret)

\* A convenience coroutine refuses the channel's type before it fetches
TypeMismatch(kind, chft) ==
    /\ Len(calls) < MaxCalls
    /\ calls' = Append(calls, Call(kind, "done", chft, NoCount, FALSE, FALSE,
                                   FALSE, 0, Exc("ValueError")))
    /\ UNCHANGED <<pending_futures, fstate, inflight, catalog_vars, decode_vars>>

\* get_precision with the type test after the fetch was started
get_precision_latecheck(chft, ret) ==
    IF chft \notin native_float_types
    THEN /\ Len(calls) < MaxCalls
         /\ CreateFuture
         /\ calls' = Append(calls, Call("get_precision", "done", chft, NoCount,
                                        FALSE, FALSE, FALSE, NewFuture,
                                        Exc("ValueError")))
         /\ UNCHANGED <<inflight, catalog_vars, decode_vars>>
    ELSE get_vars("get_precision", chft, ret)

\* coroutines.get_precision: ValueError unless the channel's type is a native
\* float type, then get_ctrlvars
get_precision(chft, ret) ==
    IF chft \notin native_float_types
    THEN TypeMismatch("get_precision", chft)
    ELSE get_vars("get_precision", chft, ret)

\* coroutines.get_enum_strings: ValueError unless the channel's type is ENUM,
\* then get_ctrlvars
get_enum_strings(chft, ret) ==
    IF chft /= ENUM
    THEN TypeMismatch("get_enum_strings", chft)
    ELSE get_vars("get_enum_strings", chft, ret)


\* Resolution of a future by the completion handler: only a pending future
\* takes the outcome of the event
resolve(st, status) ==
    IF st /= "PENDING" THEN st
    ELSE IF status = ECA_NORMAL THEN "RESULT" ELSE "EXCEPTION"

\* The completion handler of the event-delivery path, run for token f with the
\* status of the event: a token that is not registered is ignored; otherwise
\* the operation is resolved and the token unregistered.
completeFromCallback(f, status) ==
    /\ f \in inflight
    /\ inflight' = inflight \ {f}
    /\ IF f \in pending_futures
       THEN /\ pending_futures' = ca_callback_done(pending_futures, f)
            /\ fstate' = [fstate EXCEPT ![f] = resolve(@, status)]
       ELSE UNCHANGED <<pending_futures, fstate>>
    /\ UNCHANGED <<calls, catalog_vars, decode_vars>>

\* put: future.add_done_callback(partial(callback, ...)); the event loop runs
\* the callback once, after the future is done, however it became done
RunDoneCallback(c) ==
    /\ calls[c].callback
    /\ calls[c].fut /= 0
    /\ fstate[calls[c].fut] /= "PENDING"
    /\ calls[c].cbruns = 0
    /\ calls' = [calls EXCEPT ![c].cbruns = 1]
    /\ UNCHANGED <<pending_futures, fstate, inflight, catalog_vars, decode_vars>>

\* What the coroutine returns or raises after wait_for returned a value
finish(cl) ==
    CASE cl.kind = "get" -> get_convert(cl.as_string, cl.count, cl.ftype)
      [] cl.kind = "put" -> Ret("value")
      [] cl.kind = "get_ctrlvars" -> Ret("dict")
      [] cl.kind = "get_precision" -> Ret("precision")
      [] cl.kind = "get_enum_strings" -> Ret("enum_strs")
      \* dbr has no attribute _stat_sev_ts
      [] cl.kind \in TimeKinds -> Exc("AttributeError")

\* wait_for returns because the future is done: its result is processed, or
\* its exception is raised to the caller
AwaitReturns(c) ==
    /\ calls[c].pc = "awaiting"
    /\ fstate[calls[c].fut] \in {"RESULT", "EXCEPTION"}
    /\ calls' = [calls EXCEPT ![c].pc = "done",
                              ![c].result =
                                  IF fstate[calls[c].fut] = "RESULT"
                                  THEN finish(calls[c])
                                  ELSE Exc("TransportError")]
    /\ UNCHANGED <<pending_futures, fstate, inflight, catalog_vars, decode_vars>>

\* The registry after the except asyncio.TimeoutError clause ran for f
on_timeout(reg, f) == reg

\* AwaitTimesOut without future.cancel(): the future stays pending
AwaitTimesOut_nocancel(c) ==
    /\ calls[c].pc = "awaiting"
    /\ fstate[calls[c].fut] = "PENDING"
    /\ calls' = [calls EXCEPT ![c].pc = "done",
                              ![c].result = Exc("TimeoutError")]
    /\ UNCHANGED <<pending_futures, fstate, inflight, catalog_vars, decode_vars>>

\* AwaitTimesOut that swallows the TimeoutError and returns None, as the
\* docstring of get describes a timeout
AwaitTimesOut_returnsNone(c) ==
    /\ calls[c].pc = "awaiting"
    /\ fstate[calls[c].fut] = "PENDING"
    /\ fstate' = [fstate EXCEPT ![calls[c].fut] = cancel(@)]
    /\ calls' = [calls EXCEPT ![c].pc = "done",
                              ![c].result = Ret("None")]
    /\ UNCHANGED <<pending_futures, inflight, catalog_vars, decode_vars>>

\* wait_for raises TimeoutError: the deadline passed and the future is still
\* pending; the except clause cancels the future and re-raises
AwaitTimesOut(c) ==
    /\ calls[c].pc = "awaiting"
    /\ fstate[calls[c].fut] = "PENDING"
    /\ fstate' = [fstate EXCEPT ![calls[c].fut] = cancel(@)]
    /\ pending_futures' = on_timeout(pending_futures, calls[c].fut)
    /\ calls' = [calls EXCEPT ![c].pc = "done",
                              ![c].result = Exc("TimeoutError")]
    /\ UNCHANGED <<inflight, catalog_vars, decode_vars>>

(***************************************************************************)
(* The type catalog, applied step by step to an argument.                  *)
(***************************************************************************)
\* tags given to the catalog: every ChannelType member and some non-members
CatalogInputs == ChannelType \cup {-1, 21, 27, 35}

Step(fn, use_time, use_ctrl) == [fn |-> fn, use_time |-> use_time, use_ctrl |-> use_ctrl]

ApplyNativeType ==
    /\ err = "none"
    /\ Len(hist) < MaxSteps
    /\ LET r == native_type(acc)
       IN  acc' = r.val /\ err' = r.err
    /\ hist' = Append(hist, Step("native_type", FALSE, FALSE))
    /\ UNCHANGED <<arg, bridge_vars, decode_vars>>

ApplyPromoteType(use_time, use_ctrl) ==
    /\ err = "none"
    /\ Len(hist) < MaxSteps
    /\ LET r == promote_type(acc, use_time, use_ctrl)
       IN  acc' = r.val /\ err' = r.err
    /\ hist' = Append(hist, Step("promote_type", use_time, use_ctrl))
    /\ UNCHANGED <<arg, bridge_vars, decode_vars>>

(***************************************************************************)
(* Decoding and conversion functions, each applied once to its arguments.  *)
(***************************************************************************)
MAX_STRING_SIZE == 40
MAX_UNITS_SIZE == 8
MAX_ENUM_STRING_SIZE == 26
MAX_ENUM_STATES == 16
\* seconds from the Unix epoch to the EPICS epoch
EPICS2UNIX_EPOCH == 631152000

max(a, b) == IF a > b THEN a ELSE b

RECURSIVE pow10(_)
pow10(k) == IF k = 0 THEN 1 ELSE 10 * pow10(k - 1)

RECURSIVE log10_floor(_)
log10_floor(x) == IF x < 10 THEN 0 ELSE 1 + log10_floor(x \div 10)

\* math.log10(x) for an integer x >= 1, as its integer part and whether it
\* is that integer exactly
log10(x) == [int |-> log10_floor(x), exact |-> pow10(log10_floor(x)) = x]

\* a whole number of seconds, in the representation of log10
Seconds(n) == [int |-> n, exact |-> TRUE]

\* timeout=None of get
NoTimeout == 0

\* get with the default timeout computed from the count the caller passed
get_timeout_requested(timeout, count, nelm) ==
    IF timeout = NoTimeout
    THEN LET l == log10(max(1, count))
         IN  [int |-> 1 + l.int, exact |-> l.exact]
    ELSE Seconds(timeout)

\* get: the timeout handed to asyncio.wait_for, in seconds;
\* 1.0 + log10(max(1, count)) of the effective count when none was given
get_timeout(timeout, count, nelm) ==
    IF timeout = NoTimeout
    THEN LET l == log10(max(1, effective_count(count, nelm)))
         IN  [int |-> 1 + l.int, exact |-> l.exact]
    ELSE Seconds(timeout)

\* unixtime without its fraction
unixtime_whole(secs, nsec) ==
    [sec |-> EPICS2UNIX_EPOCH + secs, usec |-> 0]

\* TimeStamp.unixtime: EPICS2UNIX_EPOCH + secs + 1.e-6 * int(1.e-3 * nsec),
\* a float, as its whole seconds and its microseconds
unixtime(secs, nsec) ==
    LET usec == nsec \div 1000
    IN  [sec |-> EPICS2UNIX_EPOCH + secs + usec \div 1000000,
         usec |-> usec % 1000000]

\* the code points str.strip() removes, among those a byte can give
Whitespace == {9, 10, 11, 12, 13, 28, 29, 30, 31, 32, 133, 160}

RECURSIVE lstrip(_)
lstrip(s) ==
    IF s /= <<>> /\ Head(s) \in Whitespace THEN lstrip(Tail(s)) ELSE s

RECURSIVE rstrip(_)
rstrip(s) ==
    IF s /= <<>> /\ s[Len(s)] \in Whitespace
    THEN rstrip(SubSeq(s, 1, Len(s) - 1))
    ELSE s

strip(s) == rstrip(lstrip(s))

Positive(i) == i > 0

\* the CHAR branch without strip()
as_string_text_nostrip(val) == SelectSeq(val, Positive)

\* _as_string, CHAR branch: strjoin('', [chr(i) for i in val if i > 0]).strip(),
\* the text as the sequence of its code points
as_string_text(val) == strip(SelectSeq(val, Positive))

\* ctypes simple types: name, size and alignment in bytes
ctype(name, size) == [name |-> name, size |-> size, align |-> size]

short_t == ctype("int16", 2)
ushort_t == ctype("uint16", 2)
int_t == ctype("int32", 4)
uint_t == ctype("uint32", 4)
float_t == ctype("float32", 4)
double_t == ctype("float64", 8)
byte_t == ctype("int8", 1)
ubyte_t == ctype("uint8", 1)
char_t == ctype("char", 1)

\* elem * n
array_t(elem, n) == [name |-> "array", size |-> n * elem.size, align |-> elem.align]

string_t == array_t(char_t, MAX_STRING_SIZE)

AlignUp(off, align) == ((off + align - 1) \div align) * align

\* ctypes places the fields of _fields_ in order, each at the next offset
\* that is a multiple of its alignment
RECURSIVE place(_, _, _, _)
place(fields, i, off, align) ==
    IF i > Len(fields)
    THEN [fields |-> <<>>, size |-> AlignUp(off, align), align |-> align]
    ELSE LET t == fields[i][2]
             o == AlignUp(off, t.align)
             rest == place(fields, i + 1, o + t.size, max(align, t.align))
         IN  [fields |-> <<[name |-> fields[i][1], type |-> t.name,
                            size |-> t.size, offset |-> o]>> \o rest.fields,
              size |-> rest.size, align |-> rest.align]

\* ctypes.Structure itself
Structure == [bases |-> <<>>, fields |-> <<>>]

\* The memory of a Structure subclass is the memory of its __base__, which
\* for the classes of dbr.py is the first base listed, followed by the
\* fields of its own _fields_; the fields of any further base are not part
\* of it.
RECURSIVE layout(_)
layout(cls) ==
    IF cls.bases = <<>>
    THEN [fields |-> <<>>, size |-> 0, align |-> 1]
    ELSE LET b == layout(cls.bases[1])
             own == place(cls.fields, 1, b.size, b.align)
         IN  [fields |-> b.fields \o own.fields,
              size |-> own.size, align |-> own.align]

\* a Structure subclass used as the type of a field
struct_t(name, cls) ==
    [name |-> name, size |-> layout(cls).size, align |-> layout(cls).align]

TimeStamp ==
    [bases |-> <<Structure>>,
     fields |-> << <<"secs", uint_t>>, <<"nsec", uint_t>> >>]

TimeType ==
    [bases |-> <<Structure>>,
     fields |-> << <<"status", short_t>>, <<"severity", short_t>>,
                   <<"stamp", struct_t("TimeStamp", TimeStamp)>> >>]

TimeString ==
    [bases |-> <<TimeType>>,
     fields |-> << <<"value", array_t(char_t, MAX_STRING_SIZE)>> >>]

TimeShort ==
    [bases |-> <<TimeType>>,
     fields |-> << <<"RISC_pad", short_t>>, <<"value", short_t>> >>]

TimeFloat == [bases |-> <<TimeType>>, fields |-> << <<"value", float_t>> >>]

TimeEnum ==
    [bases |-> <<TimeType>>,
     fields |-> << <<"RISC_pad", short_t>>, <<"value", ushort_t>> >>]

TimeChar ==
    [bases |-> <<TimeType>>,
     fields |-> << <<"RISC_pad0", short_t>>, <<"RISC_pad1", byte_t>>,
                   <<"value", byte_t>> >>]

TimeLong == [bases |-> <<TimeType>>, fields |-> << <<"value", int_t>> >>]

TimeDouble ==
    [bases |-> <<TimeType>>,
     fields |-> << <<"RISC_pad", int_t>>, <<"value", double_t>> >>]

field_names ==
    <<"upper_disp_limit", "lower_disp_limit", "upper_alarm_limit",
      "upper_warning_limit", "lower_warning_limit", "lower_alarm_limit",
      "upper_ctrl_limit", "lower_ctrl_limit">>

\* _ctrl_lims(type_): a Structure of the eight limits, nothing before them
ctrl_lims(type_) ==
    [bases |-> <<Structure>>,
     fields |-> [i \in DOMAIN field_names |-> <<field_names[i], type_>>]]

ControlTypeBase ==
    [bases |-> <<Structure>>,
     fields |-> << <<"status", short_t>>, <<"severity", short_t>> >>]

ControlTypeUnits ==
    [bases |-> <<ControlTypeBase>>,
     fields |-> << <<"units", array_t(char_t, MAX_UNITS_SIZE)>> >>]

ControlTypePrecision ==
    [bases |-> <<ControlTypeBase>>,
     fields |-> << <<"precision", short_t>>, <<"RISC_pad", short_t>>,
                   <<"units", array_t(char_t, MAX_UNITS_SIZE)>> >>]

ctrl_enum ==
    [bases |-> <<ControlTypeBase>>,
     fields |-> << <<"no_str", short_t>>,
                   <<"strs", array_t(array_t(char_t, MAX_ENUM_STRING_SIZE),
                                     MAX_ENUM_STATES)>>,
                   <<"value", ushort_t>> >>]

ctrl_short ==
    [bases |-> <<ctrl_lims(short_t), ControlTypeUnits>>,
     fields |-> << <<"value", short_t>> >>]

ctrl_char ==
    [bases |-> <<ctrl_lims(byte_t), ControlTypeUnits>>,
     fields |-> << <<"RISC_pad", byte_t>>, <<"value", ubyte_t>> >>]

ctrl_long ==
    [bases |-> <<ctrl_lims(int_t), ControlTypeUnits>>,
     fields |-> << <<"value", int_t>> >>]

ctrl_float ==
    [bases |-> <<ctrl_lims(float_t), ControlTypePrecision>>,
     fields |-> << <<"value", float_t>> >>]

ctrl_double ==
    [bases |-> <<ctrl_lims(double_t), ControlTypePrecision>>,
     fields |-> << <<"value", double_t>> >>]

\* _ftype_to_ctype on the Time and Control tags, where it gives a Structure
ftype_to_ctype(ftype) ==
    CASE ftype = TIME_STRING -> TimeString
      [] ftype = TIME_INT -> TimeShort
      [] ftype = TIME_SHORT -> TimeShort
      [] ftype = TIME_FLOAT -> TimeFloat
      [] ftype = TIME_ENUM -> TimeEnum
      [] ftype = TIME_CHAR -> TimeChar
      [] ftype = TIME_LONG -> TimeLong
      [] ftype = TIME_DOUBLE -> TimeDouble
      [] ftype = CTRL_STRING -> TimeString
      [] ftype = CTRL_SHORT -> ctrl_short
      [] ftype = CTRL_INT -> ctrl_short
      [] ftype = CTRL_FLOAT -> ctrl_float
      [] ftype = CTRL_ENUM -> ctrl_enum
      [] ftype = CTRL_CHAR -> ctrl_char
      [] ftype = CTRL_LONG -> ctrl_long
      [] ftype = CTRL_DOUBLE -> ctrl_double

\* the typed fields, in memory order, of the Structure of a tag
byteLayout(ftype) == layout(ftype_to_ctype(ftype)).fields

\* bytes.index(0) and the slice of decode_bytes, which is also what .value of
\* a ctypes char array gives: the bytes before the first zero
RECURSIVE decode_bytes(_)
decode_bytes(bytes_) ==
    IF bytes_ = <<>> \/ Head(bytes_) = 0
    THEN <<>>
    ELSE <<Head(bytes_)>> \o decode_bytes(Tail(bytes_))

\* get_ctrlvars / ctrl_enum.to_dict: enum_strs is set only if no_str > 0,
\* from strs[i] for i in range(no_str); ctypes raises IndexError for an index
\* outside the array of MAX_ENUM_STATES
enum_strs(no_str, strs) ==
    IF no_str > 0
    THEN IF no_str > MAX_ENUM_STATES
         THEN [exc |-> "IndexError", present |-> FALSE, strs |-> <<>>]
         ELSE [exc |-> "none", present |-> TRUE,
               strs |-> [i \in 1..no_str |-> decode_bytes(strs[i])]]
    ELSE [exc |-> "none", present |-> FALSE, strs |-> <<>>]

\* the arguments given to the functions
TimeoutInputs ==
    [fn : {"get_timeout"}, timeout : {NoTimeout, 5},
     count : {NoCount, 0, 1, 100, 250}, nelm : {1, 7, 100, 1000}]

UnixtimeInputs ==
    [fn : {"unixtime"}, secs : {0, 1, 2},
     nsec : {0, 999, 1000, 1999, 500000000, 999999999, 1000000000}]

\* a zero byte, a blank, "H" and "i"
Bytes == {0, 32, 72, 105}

TextInputs ==
    [fn : {"as_string"}, val : UNION {[1..n -> Bytes] : n \in 2..MaxText}]

LayoutInputs == [fn : {"byteLayout"}, ftype : time_types \cup control_types]

\* a name in the MAX_ENUM_STRING_SIZE bytes of an entry of strs
Entry(name) == name \o [i \in 1..(MAX_ENUM_STRING_SIZE - Len(name)) |-> 0]

\* a table of MAX_ENUM_STATES entries, entry i named by the letter i and tail
Table(tail) == [i \in 1..MAX_ENUM_STATES |-> Entry(<<64 + i>> \o tail)]

\* names of one byte, with a zero byte inside, and as long as the entry
Tails == {<<>>, <<0, 66>>, [i \in 1..(MAX_ENUM_STRING_SIZE - 1) |-> 66]}

EnumInputs ==
    [fn : {"enum_strs"}, no_str : {-1, 0, 1, 2, 16, 17, 18},
     strs : {Table(tail) : tail \in Tails}]

Return(v) ==
    /\ res' = [done |-> TRUE, val |-> v]
    /\ UNCHANGED <<req, bridge_vars, catalog_vars>>

ApplyGetTimeout ==
    /\ req.fn = "get_timeout" /\ ~res.done
    /\ Return(get_timeout(req.timeout, req.count, req.nelm))

ApplyUnixtime ==
    /\ req.fn = "unixtime" /\ ~res.done
    /\ Return(unixtime(req.secs, req.nsec))

ApplyAsStringText ==
    /\ req.fn = "as_string" /\ ~res.done
    /\ Return(as_string_text(req.val))

ApplyByteLayout ==
    /\ req.fn = "byteLayout" /\ ~res.done
    /\ Return(byteLayout(req.ftype))

ApplyEnumStrs ==
    /\ req.fn = "enum_strs" /\ ~res.done
    /\ Return(enum_strs(req.no_str, req.strs))

(***************************************************************************)
(* Specifications.                                                         *)
(***************************************************************************)
BridgeInit ==
    /\ pending_futures = {}
    /\ fstate = <<>>
    /\ inflight = {}
    /\ calls = <<>>

\* no catalog call and no decoding call is under way
CatalogIdle == arg = 0 /\ acc = 0 /\ err = "none" /\ hist = <<>>

DecodeIdle == req = [fn |-> "none"] /\ res = [done |-> FALSE]

Init ==
    /\ BridgeInit
    /\ CatalogIdle
    /\ DecodeIdle

Next ==
    \/ \E chft \in FieldTypes, nelm \in Counts,
          ftype \in FieldTypes \cup {NoneType}, count \in Counts \cup {NoCount},
          as_str \in BOOLEAN, ret \in Statuses :
            get(chft, nelm, ftype, count, as_str, ret)
    \/ \E wait \in BOOLEAN, callback \in BOOLEAN, ret \in Statuses :
            put(wait, callback, ret)
    \/ \E chft \in FieldTypes, ret \in Statuses : get_ctrlvars(chft, ret)
    \/ \E chft \in FieldTypes, ret \in Statuses : get_timevars(chft, ret)
    \/ \E chft \in FieldTypes, ret \in Statuses : get_timestamp(chft, ret)
    \/ \E chft \in FieldTypes, ret \in Statuses : get_severity(chft, ret)
    \/ \E chft \in FieldTypes, ret \in Statuses : get_precision(chft, ret)
    \/ \E chft \in FieldTypes, ret \in Statuses : get_enum_strings(chft, ret)
    \/ \E f \in inflight, status \in Statuses : completeFromCallback(f, status)
    \/ \E c \in DOMAIN calls : AwaitReturns(c)
    \/ \E c \in DOMAIN calls : AwaitTimesOut(c)
    \/ \E c \in DOMAIN calls : RunDoneCallback(c)

Spec == Init /\ [][Next]_vars

\* The event loop resumes every coroutine whose wait is over, by the result
\* of its future or by the deadline of wait_for.
FairSpec ==
    /\ Spec
    /\ \A c \in 1..MaxCalls :
          /\ WF_vars(c \in DOMAIN calls /\ AwaitReturns(c))
          /\ WF_vars(c \in DOMAIN calls /\ AwaitTimesOut(c))

CatalogInit ==
    /\ BridgeInit
    /\ DecodeIdle
    /\ arg \in CatalogInputs
    /\ acc = arg /\ err = "none" /\ hist = <<>>

CatalogNext ==
    \/ ApplyNativeType
    \/ \E use_time \in BOOLEAN, use_ctrl \in BOOLEAN :
          ApplyPromoteType(use_time, use_ctrl)

CatalogSpec == CatalogInit /\ [][CatalogNext]_vars

DecodeInit ==
    /\ BridgeInit
    /\ CatalogIdle
    /\ \/ req \in TimeoutInputs
       \/ req \in UnixtimeInputs
       \/ req \in TextInputs
       \/ req \in LayoutInputs
       \/ req \in EnumInputs
    /\ res = [done |-> FALSE]

DecodeNext ==
    \/ ApplyGetTimeout
    \/ ApplyUnixtime
    \/ ApplyAsStringText
    \/ ApplyByteLayout
    \/ ApplyEnumStrs

DecodeSpec == DecodeInit /\ [][DecodeNext]_vars


(***************************************************************************)
(* Properties of the bridge.                                               *)
(***************************************************************************)
\* the calls that suspended in wait_for and ended with a timeout
TimedOut(c) == calls[c].pc = "done" /\ calls[c].result = Exc("TimeoutError")

\* C1: after any sequence of operations, no timed-out operation is still
\* registered in _pending_futures.
C1_TimedOutNotRegistered ==
    \A c \in DOMAIN calls : TimedOut(c) => calls[c].fut \notin pending_futures

\* C2: a completion callback delivered for a token whose operation has already
\* timed out or completed resolves nothing and leaves the registry unchanged.
C2_LateCallbackIsNoOp ==
    [][\A f \in inflight, status \in Statuses :
          (fstate[f] /= "PENDING" /\ completeFromCallback(f, status))
              => (pending_futures' = pending_futures /\ fstate' = fstate)]_vars

\* what the caller of c observes, against the terminal state st of its future
Observes(cl, st) ==
    \/ st = "CANCELLED" /\ cl.result = Exc("TimeoutError")
    \/ st = "EXCEPTION" /\ cl.result = Exc("TransportError")
    \/ st = "RESULT" /\ cl.result = finish(cl)

C4_FailedSubmissionNotRegistered ==
    \A c \in DOMAIN calls :
        calls[c].result = Exc("CASeverityException")
            => calls[c].fut \notin pending_futures

EnumAsStringDone(c) ==
    /\ calls[c].kind = "get" /\ calls[c].pc = "done"
    /\ calls[c].as_string /\ calls[c].ftype = ENUM /\ calls[c].count = 1
    /\ fstate[calls[c].fut] = "RESULT"

\* C6: the enum-string lookup of a get with as_string on an ENUM scalar is a
\* PendingOperation of its own, with a token that is not the outer get's, and
\* the get ends by that lookup's completion or timeout.
C6_NestedLookupIndependent ==
    \A c \in DOMAIN calls :
        EnumAsStringDone(c)
            => /\ \E f \in DOMAIN fstate :
                     f \notin {calls[d].fut : d \in DOMAIN calls}
               /\ calls[c].result.exc \in {"none", "TimeoutError"}

\* C7: a get with as_string on an ENUM scalar never raises because of the
\* enum-string lookup: it returns a value.
C7_EnumLookupNeverRaises ==
    \A c \in DOMAIN calls :
        EnumAsStringDone(c) => calls[c].result.exc = "none"

(***************************************************************************)
(* Properties of the type catalog.                                         *)
(***************************************************************************)
NativeStep == Step("native_type", FALSE, FALSE)
PromoteTime == Step("promote_type", TRUE, FALSE)
PromoteCtrl == Step("promote_type", FALSE, TRUE)

\* the promotion to the family of x; the Status family has no flag
SameFamilyAs(x) == Step("promote_type", x \in time_types, x \in control_types)

\* C8 as stated: for every Status, Time and Control member x, promoting
\* native_type(x) back to the family of x returns x.
C8_RoundTripEveryFamily ==
    (arg \in ChannelType \ native_types /\ hist = <<NativeStep, SameFamilyAs(arg)>>)
        => (err = "none" /\ acc = arg)

\* C8 amended: for every Time member x and every Control member x other than
\* CTRL_STRING, promoting native_type(x) back to the family of x returns x.
C8_RoundTrip ==
    (/\ arg \in (time_types \cup control_types) \ {CTRL_STRING}
     /\ hist = <<NativeStep, SameFamilyAs(arg)>>)
        => (err = "none" /\ acc = arg)

C8_Witness ==
    arg = CTRL_DOUBLE /\ hist = <<NativeStep, PromoteCtrl>> /\ acc = CTRL_DOUBLE

\* the family a promotion step targets
FamilyOf(step) == IF step.use_ctrl THEN control_types ELSE time_types

\* C9: for every FieldType x and families F1, F2 of Time and Control,
\* promote(promote(x, F1), F2) = promote(native_type(x), F2), and promote(x, F)
\* lies in F unless x is of the STRING kind and F is Control.
C9_PromoteDependsOnNative ==
    /\ (/\ arg \in ChannelType /\ Len(hist) = 2
        /\ hist[1] \in {PromoteTime, PromoteCtrl}
        /\ hist[2] \in {PromoteTime, PromoteCtrl})
          => (/\ err = "none"
              /\ Ok(acc) = promote_type(native_type(arg).val,
                                        hist[2].use_time, hist[2].use_ctrl))
    /\ (/\ arg \in ChannelType /\ Len(hist) = 1
        /\ hist[1] \in {PromoteTime, PromoteCtrl})
          => (/\ err = "none"
              /\ \/ acc \in FamilyOf(hist[1])
                 \/ (/\ native_type(arg).val = DBR_STRING
                     /\ hist[1] = PromoteCtrl /\ acc = TIME_STRING))

C9_Witness ==
    arg = STS_ENUM /\ hist = <<PromoteTime, PromoteCtrl>> /\ acc = CTRL_ENUM

\* C10: promoting a STRING-family type to Control gives TIME_STRING, as
\* promoting it to Time does, and promote_type never returns CTRL_STRING.
C10_StringCollapse ==
    /\ (/\ arg \in {DBR_STRING, STS_STRING, TIME_STRING, CTRL_STRING}
        /\ hist \in {<<PromoteTime>>, <<PromoteCtrl>>})
          => (err = "none" /\ acc = TIME_STRING)
    /\ (/\ Len(hist) > 0 /\ hist[Len(hist)].fn = "promote_type" /\ err = "none")
          => acc /= CTRL_STRING

C10_Witness ==
    arg = CTRL_STRING /\ hist = <<PromoteCtrl>> /\ acc = TIME_STRING


\* the first tag of the family of x
FamilyBase(x) ==
    IF x \in control_types THEN CTRL_STRING
    ELSE IF x \in time_types THEN TIME_STRING
    ELSE IF x \in status_types THEN STS_STRING
    ELSE DBR_STRING

\* C11: native_type is total on the catalog: every member of the four families
\* maps to the native member at the same position of its family (its tag
\* minus the family's first tag), and a native type maps to itself.
C11_NativeTypeTotal ==
    (arg \in ChannelType /\ hist = <<NativeStep>>)
        => /\ err = "none"
           /\ acc = arg - FamilyBase(arg)
           /\ acc \in native_types
           /\ arg \in native_types => acc = arg

C11_Witness ==
    arg = STS_DOUBLE /\ hist = <<NativeStep>> /\ acc = DOUBLE /\ err = "none"

\* C12: a tag that is a member of no family, given to native_type or to
\* promote_type, produces an error and never some FieldType.
C12_UnknownTagIsError ==
    (arg \notin ChannelType /\ Len(hist) >= 1)
        => /\ err \in {"KeyError", "ValueError"}
           /\ Len(hist) = 1

C12_Witness ==
    arg = 21 /\ hist = <<PromoteTime>> /\ err = "ValueError"


\* C13 (as stated): a get_timevars, get_timestamp or get_severity whose fetch
\* completed successfully returns its record or field and does not end in an
\* error.
C13_TimeVarsSucceed ==
    \A c \in DOMAIN calls :
        (/\ calls[c].kind \in TimeKinds
         /\ calls[c].pc = "done"
         /\ calls[c].fut /= 0
         /\ fstate[calls[c].fut] = "RESULT")
            => calls[c].result.exc = "none"

\* the native type of the channel a convenience coroutine was called on
ChannelFieldType(cl) ==
    IF cl.ftype \in DOMAIN native_map THEN native_map[cl.ftype] ELSE cl.ftype

Mismatched(cl) ==
    \/ cl.kind = "get_precision" /\ ChannelFieldType(cl) \notin native_float_types
    \/ cl.kind = "get_enum_strings" /\ ChannelFieldType(cl) /= ENUM

C20_CallbackOnlyOnCompletion ==
    \A c \in DOMAIN calls :
        (calls[c].kind = "put" /\ calls[c].cbruns > 0)
            => /\ calls[c].fut /= 0
               /\ fstate[calls[c].fut] \in {"RESULT", "EXCEPTION"}
               /\ calls[c].result /= Exc("CASeverityException")


(***************************************************************************)
(* Properties of the decoding and conversion functions.                    *)
(***************************************************************************)
TimeoutApplied == req.fn = "get_timeout" /\ res.done /\ req.timeout = NoTimeout

\* the count get requests: the smaller of the count passed and the channel's
\* element count, or the element count when none was passed
RequestCount ==
    IF req.count = NoCount THEN req.nelm
    ELSE IF req.count <= req.nelm THEN req.count ELSE req.nelm

\* C15: without a timeout, get waits t = 1.0 + log10(max(1, count)) seconds
\* for the effective count: 10^(t-1) is max(1, count), so t - 1 lies in
\* [int(t) - 1, int(t)) and is whole exactly for a power of ten; count=1
\* gives 1.0 s and count=100 gives 3.0 s.
C15_DefaultTimeout ==
    TimeoutApplied
        => LET n == IF RequestCount < 1 THEN 1 ELSE RequestCount
               t == res.val
           IN  /\ pow10(t.int - 1) <= n /\ n < pow10(t.int)
               /\ t.exact <=> pow10(t.int - 1) = n
               /\ RequestCount = 1 => t = Seconds(1)
               /\ RequestCount = 100 => t = Seconds(3)

C15_Witness ==
    /\ TimeoutApplied
    /\ req.count = NoCount /\ req.nelm = 100
    /\ res.val = Seconds(3)

UnixtimeApplied == req.fn = "unixtime" /\ res.done

\* the result is the epoch offset plus secs plus the whole microseconds of nsec
TruncatedToMicroseconds ==
    LET usec == (res.val.sec - EPICS2UNIX_EPOCH - req.secs) * 1000000 + res.val.usec
    IN  /\ res.val.usec \in 0..999999
        /\ usec * 1000 <= req.nsec
        /\ req.nsec - usec * 1000 < 1000

\* C16 (as stated): the conversion adds 631152000 to secs and truncates nsec
\* to microseconds; secs=0, nanos=0 gives 631152000.0 and secs=1,
\* nanos=500_000_000 gives 631152001.0.
C16_UnixtimeAsStated ==
    UnixtimeApplied
        => /\ TruncatedToMicroseconds
           /\ (req.secs = 0 /\ req.nsec = 0)
                 => res.val = [sec |-> 631152000, usec |-> 0]
           /\ (req.secs = 1 /\ req.nsec = 500000000)
                 => res.val = [sec |-> 631152001, usec |-> 0]

\* C16 (amended): the conversion adds 631152000 to secs and truncates nsec to
\* microseconds; secs=0, nanos=0 gives 631152000.0 and secs=1,
\* nanos=500_000_000 gives 631152001.5.
C16_Unixtime ==
    UnixtimeApplied
        => /\ TruncatedToMicroseconds
           /\ (req.secs = 0 /\ req.nsec = 0)
                 => res.val = [sec |-> 631152000, usec |-> 0]
           /\ (req.secs = 1 /\ req.nsec = 500000000)
                 => res.val = [sec |-> 631152001, usec |-> 500000]

C16_Witness ==
    /\ UnixtimeApplied
    /\ req.secs = 1 /\ req.nsec = 500000000
    /\ res.val = [sec |-> 631152001, usec |-> 500000]

TextApplied == req.fn = "as_string" /\ res.done

\* the bytes before the first zero byte
UpToNull(val) == decode_bytes(val)

\* the bytes without the zero bytes at the end
RECURSIVE TrailingZerosTrimmed(_)
TrailingZerosTrimmed(val) ==
    IF val /= <<>> /\ val[Len(val)] = 0
    THEN TrailingZerosTrimmed(SubSeq(val, 1, Len(val) - 1))
    ELSE val

\* C17 (as stated): the text of a CHAR array is its bytes, trimmed at the null
\* or of their trailing zeros, one character for each byte that is left;
\* [72,105,0,0] gives "Hi".
C17_TextAsStated ==
    TextApplied
        => /\ \/ res.val = UpToNull(req.val)
              \/ res.val = TrailingZerosTrimmed(req.val)
           /\ req.val = <<72, 105, 0, 0>> => res.val = <<72, 105>>

\* C17 (amended): the text of a CHAR array is its non-zero bytes in order,
\* one character each, without the whitespace at its two ends: every zero
\* byte is dropped, wherever it is; [72,105,0,0] gives "Hi".
C17_Text ==
    TextApplied
        => LET nz == SelectSeq(req.val, Positive)
               t == res.val
           IN  /\ \E a \in 1..(Len(nz) + 1), b \in 0..Len(nz) :
                     /\ t = SubSeq(nz, a, b)
                     /\ \A i \in 1..(a - 1) : nz[i] \in Whitespace
                     /\ \A i \in (b + 1)..Len(nz) : nz[i] \in Whitespace
               /\ t /= <<>> => t[1] \notin Whitespace /\ t[Len(t)] \notin Whitespace
               /\ req.val = <<72, 105, 0, 0>> => t = <<72, 105>>

C17_Witness ==
    /\ TextApplied
    /\ req.val = <<32, 72, 0, 105>>
    /\ res.val = <<72, 105>>

LayoutApplied == req.fn = "byteLayout" /\ res.done

Placed(name, type, size, offset) ==
    [name |-> name, type |-> type, size |-> size, offset |-> offset]

\* C18 (as stated): the layout of every Time and Control tag begins with
\* status (int16) at byte 0 and severity (int16) at byte 2, and for a Time tag
\* the 8 bytes of the timestamp, seconds (uint32) then nanoseconds (uint32),
\* follow at byte 4.
C18_StatusSeverityPrefix ==
    LayoutApplied
        => /\ Len(res.val) >= 2
           /\ res.val[1] = Placed("status", "int16", 2, 0)
           /\ res.val[2] = Placed("severity", "int16", 2, 2)
           /\ req.ftype \in time_types
                 => /\ Len(res.val) >= 3
                    /\ res.val[3] = Placed("stamp", "TimeStamp", 8, 4)
                    /\ layout(TimeStamp).fields
                          = <<Placed("secs", "uint32", 4, 0),
                              Placed("nsec", "uint32", 4, 4)>>

EnumStrsApplied == req.fn = "enum_strs" /\ res.done

\* C19 (as stated): the table extracted for a reported count is made of
\* exactly that many strings, 0 to 16 of them, each the bytes of its entry
\* before the first null, and no reported count raises an error.
C19_EnumStrsAsStated ==
    EnumStrsApplied
        => /\ res.val.exc = "none"
           /\ Len(res.val.strs) <= MAX_ENUM_STATES
           /\ req.no_str \in 0..MAX_ENUM_STATES
                 => /\ Len(res.val.strs) = req.no_str
                    /\ \A i \in 1..req.no_str :
                          res.val.strs[i] = UpToNull(req.strs[i])


(***************************************************************************)
(* Properties of the registry and of the calls that make no request.      *)
(***************************************************************************)
\* the native layer accepted the request of call c: the coroutine went on to
\* wait_for, and did not end at the creation of its future or at PySEVCHK
Accepted(c) ==
    /\ calls[c].fut /= 0
    /\ \/ calls[c].pc = "awaiting"
       \/ /\ calls[c].pc = "done"
          /\ calls[c].result \notin {Exc("CASeverityException"), Exc("ValueError")}

\* the completion event of future f was delivered, which is when
\* ca_callback_done runs for it
PassedThroughDone(f) ==
    \E c \in DOMAIN calls : calls[c].fut = f /\ Accepted(c) /\ f \notin inflight

\* C21: the registry holds exactly the futures created and not yet passed
\* through ca_callback_done, and the token the native layer holds for an
\* operation is the registry entry of that one operation: two calls never
\* share a future, and every token in flight is the future of one accepted
\* call and was registered when it was handed over.
C21_RegistryExact ==
    /\ pending_futures
          = {f \in 1..Len(fstate) : ~PassedThroughDone(f)}
    /\ \A c1, c2 \in DOMAIN calls :
          (c1 /= c2 /\ calls[c1].fut /= 0) => calls[c1].fut /= calls[c2].fut
    /\ \A f \in inflight :
          /\ f \in pending_futures
          /\ \E c \in DOMAIN calls : calls[c].fut = f /\ Accepted(c)

C21_Witness ==
    /\ Len(fstate) = 2
    /\ PassedThroughDone(1) /\ fstate[1] = "RESULT"
    /\ pending_futures = {2} /\ inflight = {2}

\* a put with wait=False and no callable callback
PlainPut(cl) == cl.kind = "put" /\ ~cl.wait /\ ~cl.callback

\* C22: a put with wait=False and no callback is over when put returns: it
\* has made no future, it ends with the status of the one native put, raised
\* by PySEVCHK when it is not ECA_NORMAL, and the registry, the futures and
\* the tokens in flight are as they were before it.
C22_PlainPutFireAndForget ==
    [][\A c \in DOMAIN calls' \ DOMAIN calls :
          PlainPut(calls'[c])
              => /\ calls'[c].pc = "done"
                 /\ calls'[c].fut = 0
                 /\ calls'[c].result \in {Ret("status"), Exc("CASeverityException")}
                 /\ UNCHANGED <<pending_futures, fstate, inflight>>]_vars

C22_Witness ==
    /\ Len(calls) = 2
    /\ calls[1].kind = "get" /\ calls[1].pc = "awaiting"
    /\ PlainPut(calls[2]) /\ calls[2].result = Ret("status")
    /\ pending_futures = {1} /\ Len(fstate) = 1

\* C23 (as stated): a get on a channel whose field type is unknown, whether
\* it is given as ftype or looked up because ftype is None, returns None, has
\* made no future and submitted nothing.
C23_UnknownTypeReturnsNone ==
    \A c \in DOMAIN calls :
        (/\ calls[c].kind = "get"
         /\ \/ calls[c].ftype = -1
            \/ calls[c].ftype = NoneType /\ calls[c].chft = -1)
            => /\ calls[c].pc = "done"
               /\ calls[c].result = Ret("None")
               /\ calls[c].fut = 0

====
